---------------------------- MODULE Spec2Model ----------------------------
(***************************************************************************)
(* Model of frontend/app.js: the two file inputs, the trigger button, the  *)
(* status line, the result section, and the asynchronous callMatch handler *)
(* with its two suspension points (await fetch, await res.json()).         *)
(*                                                                         *)
(* Text is a sequence of tokens.  A token is one character of a value, or  *)
(* one literal piece of a template of the source.  The Thai literals of    *)
(* the source are written as ASCII tokens:                                 *)
(*   "NOT_SELECTED"   the placeholder of setFileName          (line 22)    *)
(*   "MSG_LOADING"    the status text while comparing         (line 45)    *)
(*   "MSG_ERROR"      the generic error text                  (line 63)    *)
(*   "MSG_SUCCESS"    the status text after a success         (line 68)    *)
(*   "MSG_CONNECT"    the connectivity error text             (line 93)    *)
(*   "TAX_SHEET"      the default tax sheet name              (line 51)    *)
(*   "ESG_SHEET"      the ESG sheet name                      (line 52)    *)
(*   "KEY_LABEL"      the default match key label             (line 73)    *)
(*   "(EMPTY)"        the placeholder of an empty value       (line 86)    *)
(***************************************************************************)
EXTENDS Integers, Sequences, FiniteSets, TLC

\* Number of callMatch invocations that can be suspended at the same time.
MaxCalls == 2

VARIABLES
    esgInput,       \* esgInput.files.length: 0 when empty, 1 when a file is picked
    taxInput,       \* taxInput.files.length
    esgName,        \* esgName.textContent
    taxName,        \* taxName.textContent
    btnDisabled,    \* btnMatch.disabled
    statusClass,    \* apiStatus.className
    statusText,     \* apiStatus.textContent
    summaryHtml,    \* summaryEl.innerHTML
    theadHtml,      \* resultThead.innerHTML
    bodyHtml,       \* resultBody.innerHTML
    resultHidden,   \* resultSection.hidden
    pc,             \* per invocation: "idle", "fetch" (await fetch), "json" (await res.json())
    resOk,          \* per invocation: res.ok of the response fetch resolved with
    lastFetch       \* the arguments of the latest call of fetch (NoRequest before the first)

vars == <<esgInput, taxInput, esgName, taxName, btnDisabled, statusClass,
          statusText, summaryHtml, theadHtml, bodyHtml, resultHidden, pc,
          resOk, lastFetch>>

display == <<summaryHtml, theadHtml, bodyHtml, resultHidden>>

Calls == 1..MaxCalls
\* files.length of a file input that takes one file
Files == {0, 1}

-----------------------------------------------------------------------------
(* JavaScript values, as far as the handler looks at them. *)

Undef == [t |-> "undefined"]
Null == [t |-> "null"]
Str(s) == [t |-> "string", s |-> s]
Num(n) == [t |-> "number", n |-> n]
Bool(b) == [t |-> "boolean", b |-> b]
Arr(a) == [t |-> "array", a |-> a]

\* ToBoolean: what `x || y`, `x ? y : z` and `!x` test.
Truthy(v) ==
    CASE v.t = "undefined" -> FALSE
      [] v.t = "null" -> FALSE
      [] v.t = "string" -> v.s # <<>>
      [] v.t = "number" -> v.n # 0
      [] v.t = "boolean" -> v.b
      [] OTHER -> TRUE

\* ToString of a template literal's ${...} and of textContent = ...
ToStr(v) ==
    CASE v.t = "undefined" -> <<"undefined">>
      [] v.t = "null" -> <<"null">>
      [] v.t = "string" -> v.s
      [] v.t = "number" -> <<ToString(v.n)>>
      [] v.t = "boolean" -> IF v.b THEN <<"true">> ELSE <<"false">>
      [] OTHER -> <<"[object]">>

\* x || y
OrElse(x, y) == IF Truthy(x) THEN x ELSE y

\* x ?? y
Coalesce(x, y) == IF x.t \in {"undefined", "null"} THEN y ELSE x

\* Reading property p of value v: a TypeError (Throws) on undefined and null.
ReadThrows(v) == v.t \in {"undefined", "null"}

RECURSIVE Concat(_)
\* Array.prototype.join("") of a sequence of texts
Concat(ss) == IF ss = <<>> THEN <<>> ELSE Head(ss) \o Concat(Tail(ss))

RECURSIVE JoinWith(_, _)
\* Array.prototype.join(sep)
JoinWith(ss, sep) ==
    IF ss = <<>> THEN <<>>
    ELSE IF Len(ss) = 1 THEN Head(ss)
    ELSE Head(ss) \o sep \o JoinWith(Tail(ss), sep)

-----------------------------------------------------------------------------
(* escapeHtml (lines 15-19): textContent = s ?? "", then innerHTML, which  *)
(* serialises a text node with &, < and > replaced.                         *)

EscapeChar(c) ==
    CASE c = "&" -> "&amp;"
      [] c = "<" -> "&lt;"
      [] c = ">" -> "&gt;"
      [] OTHER -> c

escapeHtml(s) ==
    LET text == ToStr(Coalesce(s, Str(<<>>)))
    IN  [i \in 1..Len(text) |-> EscapeChar(text[i])]

-----------------------------------------------------------------------------
(* File inputs (lines 21-36). *)

\* setFileName: file ? file.name : placeholder ("FILE_NAME" is the name of
\* whichever file is picked)
setFileName(file) == IF file # 0 THEN <<"FILE_NAME">> ELSE <<"NOT_SELECTED">>

\* checkCanMatch: the value it assigns to btnMatch.disabled
checkCanMatch(esg, tax) == ~(esg # 0 /\ tax # 0)

\* "change" on the ESG input: a file is picked (also in place of another
\* one), or the selection is cleared
EsgChange(f) ==
    /\ f # 0 \/ esgInput # 0
    /\ esgInput' = f
    /\ esgName' = setFileName(f)
    /\ btnDisabled' = checkCanMatch(f, taxInput)
    /\ UNCHANGED <<taxInput, taxName, statusClass, statusText, summaryHtml,
                   theadHtml, bodyHtml, resultHidden, pc, resOk, lastFetch>>

\* "change" on the tax input
TaxChange(f) ==
    /\ f # 0 \/ taxInput # 0
    /\ taxInput' = f
    /\ taxName' = setFileName(f)
    /\ btnDisabled' = checkCanMatch(esgInput, f)
    /\ UNCHANGED <<esgInput, esgName, statusClass, statusText, summaryHtml,
                   theadHtml, bodyHtml, resultHidden, pc, resOk, lastFetch>>

-----------------------------------------------------------------------------
(* The request (lines 39-56). *)

\* Values of sheetNameInput.value the user can have typed.
SheetInputs == { <<>>, <<" ">>, <<"S">>, <<" ", "S", " ">> }

IsSpace(c) == c = " "

RECURSIVE TrimStart(_)
TrimStart(s) ==
    IF s # <<>> /\ IsSpace(Head(s)) THEN TrimStart(Tail(s)) ELSE s

RECURSIVE TrimEnd(_)
TrimEnd(s) ==
    IF s # <<>> /\ IsSpace(s[Len(s)]) THEN TrimEnd(SubSeq(s, 1, Len(s) - 1)) ELSE s

\* String.prototype.trim
trim(s) == TrimEnd(TrimStart(s))

\* line 51: (sheetNameInput.value || default).trim()
sheetName(value) == trim(ToStr(OrElse(Str(value), Str(<<"TAX_SHEET">>))))

esgSheetName == <<"ESG_SHEET">>
matchKeyCol == 3
\* the ESG column list with its last index left out
esgColsShort == <<"2", ",", "3", ",", "5", ",", "6", ",", "8", ",", "14">>

esgCols == <<"2", ",", "3", ",", "5", ",", "6", ",", "8", ",", "14", ",", "15">>
taxCols == <<"1", ",", "2", ",", "4", ",", "5", ",", "7", ",", "13", ",", "14">>

\* encodeURIComponent of one character (a Thai literal is one token here, and
\* its encoding is the token with a % before it)
EncodeChar(c) ==
    CASE c = " " -> "%20"
      [] c = "," -> "%2C"
      [] c \in {"TAX_SHEET", "ESG_SHEET"} -> "%" \o c
      [] OTHER -> c

encodeURIComponent(s) == [i \in 1..Len(s) |-> EncodeChar(s[i])]

\* the file check with && where the source has ||
filesMissingBothOnly(esgFile, taxFile) == esgFile = 0 /\ taxFile = 0

\* a check that looks at the ESG file only
filesMissingEsgOnly(esgFile, taxFile) == esgFile = 0

\* line 41: if (!esgFile || !taxFile) return;
filesMissing(esgFile, taxFile) == esgFile = 0 \/ taxFile = 0

NoRequest == [none |-> TRUE]

\* lines 47-59: the url, the method and the form handed to fetch
Request(value, esgFile, taxFile) ==
    [ path |-> "/match-columns",
      sheet_name |-> encodeURIComponent(sheetName(value)),
      esg_sheet_name |-> encodeURIComponent(esgSheetName),
      esg_cols |-> encodeURIComponent(esgCols),
      tax_cols |-> encodeURIComponent(taxCols),
      match_key_col |-> ToStr(Num(matchKeyCol)),
      case_sensitive |-> <<"true">>,
      method |-> "POST",
      esg_file |-> esgFile,
      tax_file |-> taxFile ]

\* The invocation record a click gets: the lowest one that is idle.
FreeCall == CHOOSE i \in Calls : pc[i] = "idle" /\ \A j \in Calls : pc[j] = "idle" => i <= j

\* btnMatch "click" -> callMatch, up to its first await (a disabled button
\* fires no click event)
Click(value) ==
    /\ ~btnDisabled
    /\ \E i \in Calls : pc[i] = "idle"
    /\ IF filesMissing(esgInput, taxInput)
       THEN UNCHANGED vars
       ELSE /\ btnDisabled' = TRUE
            /\ statusClass' = "status loading"
            /\ statusText' = <<"MSG_LOADING">>
            /\ lastFetch' = Request(value, esgInput, taxInput)
            /\ pc' = [pc EXCEPT ![FreeCall] = "fetch"]
            /\ UNCHANGED <<esgInput, taxInput, esgName, taxName, summaryHtml,
                           theadHtml, bodyHtml, resultHidden, resOk>>

-----------------------------------------------------------------------------
(* Reading the response (lines 60-70). *)

\* o.p: undefined when o has no property p
Prop(o, p) == IF o.t = "object" /\ p \in DOMAIN o THEN o[p] ELSE Undef

\* a[i], with the first element at 1: undefined outside the array
Index(a, i) == IF a.t = "array" /\ i \in 1..Len(a.a) THEN a.a[i] ELSE Undef

EmptyObject == [t |-> "object"]

\* What res.json() settles with: a parsed value, or a rejection
Unparseable == [t |-> "rejected"]

\* line 60: res.json().catch(() => ({}))
ParsedData(body) == IF body = Unparseable THEN EmptyObject ELSE body

\* (x || []).map(...): x is called as an array unless it is falsy
MapThrows(x) == Truthy(x) /\ x.t # "array"

Elements(x) == IF Truthy(x) THEN x.a ELSE <<>>

-----------------------------------------------------------------------------
(* Rendering (lines 71-89).  Each operator gives the markup one statement  *)
(* assigns; each ...Throws operator says when evaluating it raises.  The   *)
(* token "[>]" is the > that ends the opening tag of a cell, told apart    *)
(* from a > character of a value.                                          *)

\* lines 71-74
SummaryThrows(data) == ReadThrows(Prop(data, "summary"))

SummaryMarkup(data) ==
    LET summary == Prop(data, "summary")
    IN  <<"<p>TOTAL: <strong>">> \o ToStr(Prop(summary, "total_rows"))
        \o <<"</strong> ALL_MATCH: <strong class=ok>">> \o ToStr(Prop(summary, "all_match"))
        \o <<"</strong> HAS_MISMATCH: <strong class=warn>">> \o ToStr(Prop(summary, "has_mismatch"))
        \o <<"</strong></p><p class=hint>KEY: <strong>">>
        \o escapeHtml(OrElse(Prop(data, "match_key_label"), Str(<<"KEY_LABEL">>)))
        \o <<"</strong></p>">>

\* line 76
TheadThrows(data) == MapThrows(Prop(data, "column_labels"))

TheadMarkup(data) ==
    LET labels == Elements(Prop(data, "column_labels"))
    IN  <<"<th>ORDINAL</th>">>
        \o Concat([i \in 1..Len(labels) |-> <<"<th>">> \o escapeHtml(labels[i]) \o <<"</th>">>])
        \o <<"<th>MISMATCHES</th>">>

\* a cell taken as matching when the row has no cells_match
CellOkUnlessFlagged(r, i) ==
    IF Truthy(Prop(r, "cells_match")) THEN Truthy(Index(Prop(r, "cells_match"), i)) ELSE TRUE

\* line 80: r.cells_match && r.cells_match[i]
CellOk(r, i) ==
    IF Truthy(Prop(r, "cells_match")) THEN Truthy(Index(Prop(r, "cells_match"), i)) ELSE FALSE

\* line 81: r.values_tax && r.values_tax[i] !== undefined ? r.values_tax[i] : ""
TaxValue(r, i) ==
    IF Truthy(Prop(r, "values_tax")) /\ Index(Prop(r, "values_tax"), i) # Undef
    THEN Index(Prop(r, "values_tax"), i)
    ELSE Str(<<>>)

\* line 82
CellTitle(r, v, i) ==
    IF ~CellOk(r, i)
    THEN <<"ESG: ">> \o ToStr(v) \o <<" | TAX: ">> \o ToStr(TaxValue(r, i))
    ELSE <<>>

\* line 83
CellMarkup(r, v, i) ==
    <<IF CellOk(r, i) THEN "<td class=\"cell-ok\"" ELSE "<td class=\"cell-warn\"">>
    \o (IF CellTitle(r, v, i) # <<>>
        THEN <<" title=\"">> \o escapeHtml(Str(CellTitle(r, v, i))) \o <<"\"">>
        ELSE <<>>)
    \o <<"[>]">> \o escapeHtml(v) \o <<"</td>">>

\* one mismatch, with ?? where the source has ||: an empty value is shown empty
MismatchMarkupNullish(m) ==
    <<"<span class=mismatch-label>">> \o escapeHtml(Prop(m, "column_label"))
    \o <<"</span>: ESG=<strong>">>
    \o escapeHtml(Coalesce(Prop(m, "esg_value"), Str(<<"(EMPTY)">>)))
    \o <<"</strong> TAX=<strong>">>
    \o escapeHtml(Coalesce(Prop(m, "tax_value"), Str(<<"(EMPTY)">>)))
    \o <<"</strong>">>

\* line 86, one mismatch
MismatchMarkup(m) ==
    <<"<span class=mismatch-label>">> \o escapeHtml(Prop(m, "column_label"))
    \o <<"</span>: ESG=<strong>">>
    \o escapeHtml(OrElse(Prop(m, "esg_value"), Str(<<"(EMPTY)">>)))
    \o <<"</strong> TAX=<strong>">>
    \o escapeHtml(OrElse(Prop(m, "tax_value"), Str(<<"(EMPTY)">>)))
    \o <<"</strong>">>

\* (r.mismatches || []).length
MismatchCount(r) ==
    LET ms == OrElse(Prop(r, "mismatches"), Arr(<<>>))
    IN  IF ms.t = "array" THEN Len(ms.a) ELSE IF ms.t = "string" THEN Len(ms.s) ELSE 0

\* lines 85-87
MismatchHtml(r) ==
    IF MismatchCount(r) # 0
    THEN LET ms == Prop(r, "mismatches").a
         IN  JoinWith([k \in 1..Len(ms) |-> MismatchMarkup(ms[k])], <<" . ">>)
    ELSE <<"-">>

\* lines 78-88, one row
RowThrows(r) ==
    \/ ReadThrows(r)
    \/ MapThrows(Prop(r, "values_esg"))
    \/ /\ MismatchCount(r) # 0
       /\ \/ Prop(r, "mismatches").t # "array"
          \/ \E k \in 1..MismatchCount(r) : ReadThrows(Prop(r, "mismatches").a[k])

RowMarkup(r) ==
    LET values == Elements(Prop(r, "values_esg"))
    IN  <<IF Truthy(Prop(r, "all_match")) THEN "<tr class=row-ok>" ELSE "<tr class=row-warn>">>
        \o <<"<td>">> \o ToStr(Prop(r, "row")) \o <<"</td>">>
        \o Concat([i \in 1..Len(values) |-> CellMarkup(r, values[i], i)])
        \o <<"<td class=mismatch-cell>">> \o MismatchHtml(r) \o <<"</td></tr>">>

\* line 77
BodyThrows(data) ==
    \/ MapThrows(Prop(data, "results"))
    \/ \E k \in 1..Len(Elements(Prop(data, "results"))) :
          RowThrows(Elements(Prop(data, "results"))[k])

BodyMarkup(data) ==
    LET results == Elements(Prop(data, "results"))
    IN  Concat([k \in 1..Len(results) |-> RowMarkup(results[k])])

-----------------------------------------------------------------------------
(* Responses of the matching service. *)

Text(s) == Str(s)

Summary(total, ok, bad) ==
    [t |-> "object", total_rows |-> Num(total), all_match |-> Num(ok), has_mismatch |-> Num(bad)]

\* The response of scenario 2 of the specification
FullResponse ==
    [ t |-> "object",
      summary |-> Summary(2, 1, 1),
      column_labels |-> Arr(<<Text(<<"A">>)>>),
      match_key_label |-> Text(<<"I", "D">>),
      results |-> Arr(<<
        [ t |-> "object", row |-> Num(1), all_match |-> Bool(TRUE),
          values_esg |-> Arr(<<Text(<<"x">>)>>), values_tax |-> Arr(<<Text(<<"x">>)>>),
          cells_match |-> Arr(<<Bool(TRUE)>>), mismatches |-> Arr(<<>>) ],
        [ t |-> "object", row |-> Num(2), all_match |-> Bool(FALSE),
          values_esg |-> Arr(<<Text(<<"x">>)>>), values_tax |-> Arr(<<Text(<<"y">>)>>),
          cells_match |-> Arr(<<Bool(FALSE)>>),
          mismatches |-> Arr(<<[ t |-> "object", column_label |-> Text(<<"A">>),
                                 esg_value |-> Text(<<"x">>), tax_value |-> Text(<<"y">>) ]>>) ] >>) ]

\* Only the summary is there
SummaryOnlyResponse == [t |-> "object", summary |-> Summary(0, 0, 0)]

\* results holds null where a row should be
NullRowResponse ==
    [ t |-> "object",
      summary |-> Summary(3, 3, 0),
      column_labels |-> Arr(<<Text(<<"C">>)>>),
      results |-> Arr(<<Null>>) ]

\* column_labels is an object, not an array
BadLabelsResponse ==
    [ t |-> "object",
      summary |-> Summary(4, 4, 0),
      column_labels |-> EmptyObject,
      results |-> Arr(<<>>) ]

DetailResponse == [t |-> "object", detail |-> Text(<<"b", "a", "d">>)]

EmptyDetailResponse == [t |-> "object", detail |-> Text(<<>>)]

\* What res.json() can settle with
Bodies ==
    { Unparseable, Null, EmptyObject, DetailResponse, EmptyDetailResponse,
      FullResponse, SummaryOnlyResponse, NullRowResponse,
      BadLabelsResponse }

\* A complete response whose every text holds characters of markup
MarkupResponse ==
    [ t |-> "object",
      summary |-> [ t |-> "object", total_rows |-> Text(<<"<", "b", ">">>),
                    all_match |-> Num(0), has_mismatch |-> Num(1) ],
      column_labels |-> Arr(<<Text(<<"<">>)>>),
      match_key_label |-> Text(<<"&">>),
      results |-> Arr(<<
        [ t |-> "object", row |-> Text(<<"<", "i", ">">>), all_match |-> Bool(FALSE),
          values_esg |-> Arr(<<Text(<<"<">>)>>), values_tax |-> Arr(<<Text(<<">">>)>>),
          cells_match |-> Arr(<<Bool(FALSE)>>),
          mismatches |-> Arr(<<[ t |-> "object", column_label |-> Text(<<"<">>),
                                 esg_value |-> Text(<<"<">>), tax_value |-> Text(<<">">>) ]>>) ] >>) ]

\* A complete response whose rows leave fields out: no all_match, cells_match,
\* values_tax and mismatches in the first row; cells_match and values_tax
\* shorter than values_esg and mismatches with empty, absent and null values
\* in the second
SparseResponse ==
    [ t |-> "object",
      summary |-> Summary(2, 0, 2),
      column_labels |-> Arr(<<Text(<<"P">>), Text(<<"Q">>)>>),
      results |-> Arr(<<
        [ t |-> "object", row |-> Num(1),
          values_esg |-> Arr(<<Text(<<"p">>), Text(<<"q">>)>>) ],
        [ t |-> "object", row |-> Num(2), all_match |-> Bool(TRUE),
          values_esg |-> Arr(<<Text(<<"p">>), Text(<<"q">>)>>),
          values_tax |-> Arr(<<Text(<<"p">>)>>),
          cells_match |-> Arr(<<Bool(TRUE)>>),
          mismatches |-> Arr(<<
            [ t |-> "object", column_label |-> Text(<<"P">>),
              esg_value |-> Text(<<>>), tax_value |-> Text(<<"0">>) ],
            [ t |-> "object", column_label |-> Text(<<"Q">>),
              esg_value |-> Null ] >>) ] >>) ]

\* A complete response with null where a tax value should be
NullTaxResponse ==
    [ t |-> "object",
      summary |-> Summary(1, 0, 1),
      column_labels |-> Arr(<<Text(<<"N">>)>>),
      results |-> Arr(<<
        [ t |-> "object", row |-> Num(1), all_match |-> Bool(FALSE),
          values_esg |-> Arr(<<Text(<<"n">>)>>), values_tax |-> Arr(<<Null>>),
          cells_match |-> Arr(<<Bool(FALSE)>>) ] >>) ]

\* Complete responses, on which what rendering produces is examined
RenderBodies == {FullResponse, MarkupResponse, SparseResponse, NullTaxResponse}

AllBodies == Bodies \cup RenderBodies

-----------------------------------------------------------------------------
(* The rest of callMatch (lines 59-96). *)

\* How many of the three assignments of lines 71, 76 and 77 are made before
\* an exception is raised; 3 when none is.
RenderStage(data) ==
    IF ReadThrows(data) \/ SummaryThrows(data) THEN 0
    ELSE IF TheadThrows(data) THEN 1
    ELSE IF BodyThrows(data) THEN 2
    ELSE 3

\* a handler in which reading data.detail never raises
TryThrowsOnlyRendering(ok, data) == ok /\ RenderStage(data) < 3

\* Whether the try block raises, given res.ok and the parsed data
TryThrows(ok, data) == IF ok THEN RenderStage(data) < 3 ELSE ReadThrows(data)

\* line 63: data.detail || generic message
ErrorText(data) == ToStr(OrElse(Prop(data, "detail"), Str(<<"MSG_ERROR">>)))

\* a handler whose catch block leaves the class set before rendering began
FinalStatusClassBeforeRendering(ok, data) ==
    IF ok THEN "status success" ELSE "status error"

\* apiStatus.className when callMatch returns
FinalStatusClass(ok, data) ==
    IF TryThrows(ok, data) THEN "status error"
    ELSE IF ok THEN "status success" ELSE "status error"

\* apiStatus.textContent when callMatch returns
FinalStatusText(ok, data) ==
    IF TryThrows(ok, data) THEN <<"MSG_CONNECT">>
    ELSE IF ok THEN <<"MSG_SUCCESS">> ELSE ErrorText(data)

\* a finally block that leaves the button as it is
FinallyKeepsDisabled == btnDisabled

\* line 95: the value the finally block assigns to btnMatch.disabled
FinallyDisabled == FALSE

\* the finally block, and the invocation is over
Finally(i) ==
    /\ btnDisabled' = FinallyDisabled
    /\ pc' = [pc EXCEPT ![i] = "idle"]
    /\ resOk' = [resOk EXCEPT ![i] = FALSE]
    /\ UNCHANGED <<esgInput, taxInput, esgName, taxName, lastFetch>>

\* line 59: fetch resolves with a response whose res.ok is ok; res.json() is awaited
FetchResolve(i, ok) ==
    /\ pc[i] = "fetch"
    /\ pc' = [pc EXCEPT ![i] = "json"]
    /\ resOk' = [resOk EXCEPT ![i] = ok]
    /\ UNCHANGED <<esgInput, taxInput, esgName, taxName, btnDisabled, statusClass,
                   statusText, summaryHtml, theadHtml, bodyHtml, resultHidden, lastFetch>>

\* line 59: fetch rejects; lines 91-96
FetchReject(i) ==
    /\ pc[i] = "fetch"
    /\ statusClass' = "status error"
    /\ statusText' = <<"MSG_CONNECT">>
    /\ UNCHANGED <<summaryHtml, theadHtml, bodyHtml, resultHidden>>
    /\ Finally(i)

\* lines 60-93 for a response with res.ok = ok and the given body: what is
\* assigned to the status, and to the result section as far as rendering gets
Handled ==
    [ok \in BOOLEAN, body \in AllBodies |->
        LET data == ParsedData(body)
            stage == IF ok THEN RenderStage(data) ELSE 0
        IN  [ statusClass |-> FinalStatusClass(ok, data),
              statusText |-> FinalStatusText(ok, data),
              stage |-> stage,
              summaryHtml |-> IF stage >= 1 THEN SummaryMarkup(data) ELSE <<>>,
              theadHtml |-> IF stage >= 2 THEN TheadMarkup(data) ELSE <<>>,
              bodyHtml |-> IF stage >= 3 THEN BodyMarkup(data) ELSE <<>> ]]

\* line 60: res.json() settles; lines 61-96 run to the end
JsonSettle(i, body) ==
    LET h == Handled[resOk[i], body]
    IN  /\ pc[i] = "json"
        /\ statusClass' = h.statusClass
        /\ statusText' = h.statusText
        /\ summaryHtml' = IF h.stage >= 1 THEN h.summaryHtml ELSE summaryHtml
        /\ theadHtml' = IF h.stage >= 2 THEN h.theadHtml ELSE theadHtml
        /\ bodyHtml' = IF h.stage >= 3 THEN h.bodyHtml ELSE bodyHtml
        /\ resultHidden' = IF h.stage >= 3 THEN FALSE ELSE resultHidden
        /\ Finally(i)

-----------------------------------------------------------------------------

\* The page as loaded: index.html is not among the sources; the button starts
\* disabled and the result section hidden, as the specification has it.
InitialDisabled == TRUE
InitialHidden == TRUE

Init ==
    /\ esgInput = 0
    /\ taxInput = 0
    /\ esgName = <<"NOT_SELECTED">>
    /\ taxName = <<"NOT_SELECTED">>
    /\ btnDisabled = InitialDisabled
    /\ statusClass = "status"
    /\ statusText = <<>>
    /\ summaryHtml = <<>>
    /\ theadHtml = <<>>
    /\ bodyHtml = <<>>
    /\ resultHidden = InitialHidden
    /\ pc = [i \in Calls |-> "idle"]
    /\ resOk = [i \in Calls |-> FALSE]
    /\ lastFetch = NoRequest

Next ==
    \/ \E f \in Files : EsgChange(f)
    \/ \E f \in Files : TaxChange(f)
    \/ \E value \in SheetInputs : Click(value)
    \/ \E i \in Calls, ok \in BOOLEAN : FetchResolve(i, ok)
    \/ \E i \in Calls : FetchReject(i)
    \/ \E i \in Calls, body \in Bodies : JsonSettle(i, body)

Spec == Init /\ [][Next]_vars

\* The transport settles every request and every body it started on.
FairSpec ==
    /\ Spec
    /\ \A i \in Calls : WF_vars((\E ok \in BOOLEAN : FetchResolve(i, ok)) \/ FetchReject(i))
    /\ \A i \in Calls : WF_vars(\E body \in Bodies : JsonSettle(i, body))

\* The same page, with the service answering with the complete responses.
RenderNext ==
    \/ \E f \in Files : EsgChange(f)
    \/ \E f \in Files : TaxChange(f)
    \/ \E value \in SheetInputs : Click(value)
    \/ \E i \in Calls, ok \in BOOLEAN : FetchResolve(i, ok)
    \/ \E i \in Calls : FetchReject(i)
    \/ \E i \in Calls, body \in RenderBodies : JsonSettle(i, body)

RenderSpec == Init /\ [][RenderNext]_vars

-----------------------------------------------------------------------------
(* Properties. *)

Outstanding == {i \in Calls : pc[i] # "idle"}

\* invocation i returns in this step
Returns(i) == pc[i] # "idle" /\ pc'[i] = "idle"

\* fetch is called in this step
FetchCalled == \E i \in Calls : pc[i] = "idle" /\ pc'[i] = "fetch"

\* C1: at most one call of callMatch has issued fetch and not yet finished.
AtMostOneOutstanding == Cardinality(Outstanding) <= 1

\* C2: while a callMatch invocation is between its file check and its finally
\* block, btnMatch.disabled is true.
DisabledWhileOutstanding == Outstanding # {} => btnDisabled

\* C3: every invocation that entered Loading finishes once its fetch and its
\* body have settled, and the step in which it finishes leaves
\* btnMatch.disabled = false, whatever the outcome.
ReenabledOnCompletion ==
    /\ [][\A i \in Calls : Returns(i) => ~btnDisabled']_vars
    /\ \A i \in Calls : (pc[i] # "idle") ~> (pc[i] = "idle")

\* an invocation whose rendering raised has finished, and the button is enabled
ReenabledAfterRenderError ==
    /\ Outstanding = {}
    /\ statusText = <<"MSG_CONNECT">>
    /\ summaryHtml # <<>>
    /\ ~btnDisabled

\* the sheet name the specification asks for: the trimmed input, or the
\* default when that is empty
ExpectedSheetName(value) ==
    IF trim(value) # <<>> THEN trim(value) ELSE <<"TAX_SHEET">>

\* C4: the sheet_name parameter of every issued request is the trimmed input
\* when that is non-empty and the default sheet name otherwise, never empty.
SheetNameNeverBlank ==
    [][\A value \in SheetInputs :
          Click(value) /\ FetchCalled =>
             /\ lastFetch'.sheet_name = encodeURIComponent(ExpectedSheetName(value))
             /\ lastFetch'.sheet_name # <<>>]_vars

\* C5: an invocation that ends in an error status leaves the summary, the
\* table header, the table body and the result section's visibility as they were.
ErrorLeavesDisplay ==
    [][\A i \in Calls :
          Returns(i) /\ statusClass' = "status error" => UNCHANGED display]_vars

\* C6: an HTTP-success response without results, summary or column_labels
\* ends in Success: success status, result section shown, an empty body, a
\* header without labels and a summary of zero counts.
MissingFieldsDefaulted ==
    [][\A i \in Calls, body \in {EmptyObject, SummaryOnlyResponse} :
          resOk[i] /\ JsonSettle(i, body) =>
             /\ statusClass' = "status success"
             /\ statusText' = <<"MSG_SUCCESS">>
             /\ ~resultHidden'
             /\ bodyHtml' = <<>>
             /\ theadHtml' = <<"<th>ORDINAL</th>", "<th>MISMATCHES</th>">>
             /\ summaryHtml' = SummaryMarkup(SummaryOnlyResponse)]_vars

\* C7: on an HTTP failure status the invocation ends with the error class and
\* the payload's detail, or the generic error text when there is none; the
\* status is not success and the result section's visibility does not change.
FailureStatusEndsInServerError ==
    [][\A i \in Calls, body \in Bodies :
          ~resOk[i] /\ JsonSettle(i, body) =>
             /\ statusClass' = "status error"
             /\ statusText' = IF Truthy(Prop(ParsedData(body), "detail"))
                              THEN ToStr(Prop(ParsedData(body), "detail"))
                              ELSE <<"MSG_ERROR">>
             /\ UNCHANGED resultHidden]_vars

ArrayIfAny(o, p) == p \in DOMAIN o /\ o[p] # Null => o[p].t = "array"

\* a row rendering can read: an object whose values_esg and mismatches, when
\* there, are arrays, the mismatches being objects
ReadableRow(r) ==
    /\ r.t = "object"
    /\ ArrayIfAny(r, "values_esg")
    /\ ArrayIfAny(r, "mismatches")
    /\ "mismatches" \in DOMAIN r /\ r.mismatches # Null =>
          \A k \in 1..Len(r.mismatches.a) : r.mismatches.a[k].t = "object"

\* a parsed body the handler can read to the end: an object, and under a
\* success status one with a summary, and with column_labels and results that
\* are absent or arrays, the results being readable rows
Readable(ok, body) ==
    /\ body.t = "object"
    /\ ok => /\ "summary" \in DOMAIN body /\ body.summary # Null
             /\ ArrayIfAny(body, "column_labels")
             /\ ArrayIfAny(body, "results")
             /\ "results" \in DOMAIN body /\ body.results # Null =>
                   \A k \in 1..Len(body.results.a) : ReadableRow(body.results.a[k])

FetchOnlyWithBothFiles ==
    [][FetchCalled =>
          /\ esgInput # 0 /\ taxInput # 0
          /\ lastFetch'.esg_file = esgInput
          /\ lastFetch'.tax_file = taxInput]_vars

\* a request is on its way, with both files in its form, and an input has
\* been emptied since
RequestSentThenFileRemoved ==
    /\ \E i \in Calls : pc[i] = "fetch"
    /\ lastFetch.esg_file # 0 /\ lastFetch.tax_file # 0
    /\ esgInput = 0

\* C10: btnMatch.disabled = false only while both inputs hold a file, and a
\* file-change event that leaves both inputs holding a file enables it.
EnabledOnlyWithBothFiles ==
    /\ [](~btnDisabled => esgInput # 0 /\ taxInput # 0)
    /\ [][((\E f \in Files : EsgChange(f)) \/ (\E f \in Files : TaxChange(f)))
             /\ esgInput' # 0 /\ taxInput' # 0 => ~btnDisabled']_vars

-----------------------------------------------------------------------------
(* Properties of what is rendered. *)

\* a character that is markup when it stands unescaped in element content
IsMarkupChar(c) == c \in {"<", ">", "&"}

\* the markup holds a character of a value that is markup and was not escaped
HasRawMarkup(html) == \E k \in 1..Len(html) : IsMarkupChar(html[k])

\* C11: every value of the response that is inserted into the summary, the
\* header or the body is inserted escaped, so no markup character of a value
\* stands in the display unescaped.
EveryValueEscaped ==
    ~HasRawMarkup(summaryHtml) /\ ~HasRawMarkup(theadHtml) /\ ~HasRawMarkup(bodyHtml)

-----------------------------------------------------------------------------
(* Properties of the request. *)

IsIndex(c) == c # "%2C"

\* the indices of a comma-separated list, as it stands in the query
ColumnIndices(param) == SelectSeq(param, IsIndex)

\* C12: every request carries the same esg_sheet_name, match_key_col = 3,
\* case_sensitive = true, esg_cols and tax_cols, the two lists holding the
\* same number of indices; only sheet_name and the files vary.
FixedConfiguration ==
    lastFetch # NoRequest =>
       /\ lastFetch.path = "/match-columns"
       /\ lastFetch.method = "POST"
       /\ lastFetch.esg_sheet_name = <<"%ESG_SHEET">>
       /\ lastFetch.match_key_col = <<"3">>
       /\ lastFetch.case_sensitive = <<"true">>
       /\ ColumnIndices(lastFetch.esg_cols) = <<"2", "3", "5", "6", "8", "14", "15">>
       /\ ColumnIndices(lastFetch.tax_cols) = <<"1", "2", "4", "5", "7", "13", "14">>
       /\ Len(ColumnIndices(lastFetch.esg_cols)) = Len(ColumnIndices(lastFetch.tax_cols))
       /\ DOMAIN lastFetch = {"path", "method", "sheet_name", "esg_sheet_name", "esg_cols",
                              "tax_cols", "match_key_col", "case_sensitive",
                              "esg_file", "tax_file"}

\* a request with a sheet name the user typed is the latest one, sent after an
\* earlier action rendered a result
TypedSheetAfterResult ==
    /\ lastFetch # NoRequest
    /\ lastFetch.sheet_name = <<"S">>
    /\ \E i \in Calls : pc[i] = "fetch"
    /\ ~resultHidden

-----------------------------------------------------------------------------
(* Properties of the rows. *)

IsRowTag(token) == token \in {"<tr class=row-ok>", "<tr class=row-warn>"}

IsCellTag(token) == token \in {"<td class=\"cell-ok\"", "<td class=\"cell-warn\""}

\* the class the specification gives a row: row-ok if all_match is true
RowTagOf(r) ==
    IF "all_match" \in DOMAIN r /\ r.all_match = Bool(TRUE)
    THEN "<tr class=row-ok>" ELSE "<tr class=row-warn>"

\* the class the specification gives cell i of a row: cell-ok if
\* cells_match[i] is there and true
CellTagOf(r, i) ==
    IF /\ "cells_match" \in DOMAIN r
       /\ i <= Len(r.cells_match.a)
       /\ r.cells_match.a[i] = Bool(TRUE)
    THEN "<td class=\"cell-ok\"" ELSE "<td class=\"cell-warn\""

\* per complete response: the row classes and the cell classes, in order
ExpectedClasses ==
    [body \in RenderBodies |->
        LET rows == body.results.a
        IN  [ rows |-> [k \in 1..Len(rows) |-> RowTagOf(rows[k])],
              cells |-> Concat([k \in 1..Len(rows) |->
                           [i \in 1..Len(rows[k].values_esg.a) |-> CellTagOf(rows[k], i)]]) ]]

\* C13: a rendered response has one body row per result, in the order of
\* results, classed row-ok exactly if all_match is true, with cell i classed
\* cell-ok exactly if cells_match[i] is true (cell-warn also when cells_match
\* is absent or too short); the classes are a function of the response alone.
RowsAndCellsClassified ==
    [][\A i \in Calls, body \in RenderBodies :
          resOk[i] /\ JsonSettle(i, body) =>
             /\ SelectSeq(bodyHtml', IsRowTag) = ExpectedClasses[body].rows
             /\ SelectSeq(bodyHtml', IsCellTag) = ExpectedClasses[body].cells]_vars

\* the response whose rows leave cells_match out or short is on display
SparseRowsRendered ==
    /\ ~resultHidden
    /\ bodyHtml = Handled[TRUE, SparseResponse].bodyHtml
    /\ Len(SelectSeq(bodyHtml, IsRowTag)) = 2
    /\ Len(SelectSeq(bodyHtml, IsCellTag)) = 4

-----------------------------------------------------------------------------
(* Properties of the mismatch cell. *)

\* the places of a token in markup, in order
Positions(html, token) ==
    LET At(k) == html[k] = token
    IN  SelectSeq([k \in 1..Len(html) |-> k], At)

\* what stands in the mismatch cell of each row of a body, in order
MismatchCells(html) ==
    LET starts == Positions(html, "<td class=mismatch-cell>")
        ends == Positions(html, "</td></tr>")
    IN  [j \in 1..Len(starts) |-> SubSeq(html, starts[j] + 1, ends[j] - 1)]

\* a value of a mismatch as the specification shows it: the placeholder for an
\* empty or missing one
ShownValue(m, field) ==
    IF field \notin DOMAIN m \/ m[field] = Null \/ m[field] = Text(<<>>)
    THEN <<"(EMPTY)">>
    ELSE escapeHtml(m[field])

\* one entry: the column label, the ESG value and the tax value
ExpectedEntry(m) ==
    <<"<span class=mismatch-label>">> \o escapeHtml(m.column_label)
    \o <<"</span>: ESG=<strong>">> \o ShownValue(m, "esg_value")
    \o <<"</strong> TAX=<strong>">> \o ShownValue(m, "tax_value") \o <<"</strong>">>

\* the mismatch cell of a row: a dash without mismatches, else the entries in
\* the order given, with the separator between them
ExpectedMismatchCell(r) ==
    IF "mismatches" \notin DOMAIN r \/ r.mismatches.a = <<>>
    THEN <<"-">>
    ELSE JoinWith([k \in 1..Len(r.mismatches.a) |-> ExpectedEntry(r.mismatches.a[k])],
                  <<" . ">>)

ExpectedMismatchCells ==
    [body \in RenderBodies |->
        [k \in 1..Len(body.results.a) |-> ExpectedMismatchCell(body.results.a[k])]]

\* C14: the mismatch cell of a row is a single dash when mismatches is absent
\* or empty; otherwise it holds one entry per mismatch, in the order given,
\* joined by the separator, each with the column label, the ESG value and the
\* tax value, the placeholder standing exactly for an empty or missing value.
MismatchCellRendered ==
    [][\A i \in Calls, body \in RenderBodies :
          resOk[i] /\ JsonSettle(i, body) =>
             MismatchCells(bodyHtml') = ExpectedMismatchCells[body]]_vars

\* a row without mismatches and a row with two of them, one with an empty and
\* one with a missing value, are on display
DashAndEntriesRendered ==
    /\ ~resultHidden
    /\ Len(MismatchCells(bodyHtml)) = 2
    /\ MismatchCells(bodyHtml)[1] = <<"-">>
    /\ Len(Positions(MismatchCells(bodyHtml)[2], "(EMPTY)")) = 3
    /\ Len(Positions(MismatchCells(bodyHtml)[2], " . ")) = 1

-----------------------------------------------------------------------------
(* Properties of the tooltip. *)

\* the tax part of every tooltip of a body, in order: what stands between
\* the tax caption and the quote that ends the title
TooltipTaxParts(html) ==
    LET starts == Positions(html, " | TAX: ")
        End(k) == CHOOSE q \in (k + 1)..Len(html) :
                     /\ html[q] = "\""
                     /\ \A p \in (k + 1)..(q - 1) : html[p] # "\""
    IN  [j \in 1..Len(starts) |-> SubSeq(html, starts[j] + 1, End(starts[j]) - 1)]

\* the tax value of cell i as the specification shows it in the tooltip:
\* nothing when it is missing
ExpectedTaxPart(r, i) ==
    IF \/ "values_tax" \notin DOMAIN r
       \/ i > Len(r.values_tax.a)
       \/ r.values_tax.a[i] \in {Undef, Null}
    THEN <<>>
    ELSE escapeHtml(r.values_tax.a[i])

\* the cells of a row that are not matching, in order
WarnCells(r) ==
    LET IsWarn(i) == CellTagOf(r, i) = "<td class=\"cell-warn\""
    IN  SelectSeq([i \in 1..Len(r.values_esg.a) |-> i], IsWarn)

ExpectedTaxParts ==
    [body \in RenderBodies |->
        LET rows == body.results.a
        IN  Concat([k \in 1..Len(rows) |->
               [j \in 1..Len(WarnCells(rows[k])) |->
                   ExpectedTaxPart(rows[k], WarnCells(rows[k])[j])]])]

\* C15: the cells that are not matching, and only they, carry a tooltip, and
\* its tax part is empty when values_tax is absent, too short, or holds
\* undefined or null at the cell: never the text "undefined" or "null".
TooltipTaxEmptyWhenMissing ==
    [][\A i \in Calls, body \in RenderBodies :
          resOk[i] /\ JsonSettle(i, body) =>
             /\ Len(Positions(bodyHtml', " title=\""))
                   = Len(Positions(bodyHtml', "<td class=\"cell-warn\""))
             /\ TooltipTaxParts(bodyHtml') = ExpectedTaxParts[body]]_vars

-----------------------------------------------------------------------------
(* Properties of the display as a whole. *)

\* what is on display of the summary, the header and the body was rendered
\* from the response body (a part not rendered yet is empty)
DisplayedFrom(body) ==
    LET h == Handled[TRUE, body]
    IN  /\ summaryHtml = <<>> \/ (h.stage >= 1 /\ summaryHtml = h.summaryHtml)
        /\ theadHtml = <<>> \/ (h.stage >= 2 /\ theadHtml = h.theadHtml)
        /\ bodyHtml = <<>> \/ (h.stage >= 3 /\ bodyHtml = h.bodyHtml)

\* C16: the summary, the header and the body on display all derive from one
\* and the same response.
DisplayFromOneResponse == \E body \in AllBodies : DisplayedFrom(body)

\* this step makes the result section visible
ResultShown == resultHidden /\ ~resultHidden'

\* this step is the handling of an ok response whose three parts all render
CompleteRender ==
    \E i \in Calls, body \in AllBodies :
        /\ JsonSettle(i, body)
        /\ resOk[i]
        /\ Handled[TRUE, body].stage = 3
        /\ bodyHtml' = Handled[TRUE, body].bodyHtml

\* this step is the handling of an ok response whose rendering raises
RenderRaises ==
    \E i \in Calls, body \in AllBodies :
        JsonSettle(i, body) /\ resOk[i] /\ Handled[TRUE, body].stage < 3

\* C17: the result section is made visible only by the handling of an ok
\* response that rendered completely, and no step hides it again; with no
\* request outstanding and a success status the section is visible; the
\* handling of a response whose rendering raises ends with the error status.
ResultVisibleOnlyAfterCompleteRender ==
    /\ [][ResultShown => CompleteRender]_vars
    /\ [][~resultHidden => ~resultHidden']_vars
    /\ [](Outstanding = {} /\ statusClass = "status success" => ~resultHidden)
    /\ [][RenderRaises => statusClass' = "status error"]_vars

\* a result shown by one response stays visible after a later response whose
\* rendering raised, and the status is the error status
VisibleAfterLaterRenderError ==
    /\ Outstanding = {}
    /\ ~resultHidden
    /\ statusClass = "status error"
    /\ summaryHtml = Handled[TRUE, NullRowResponse].summaryHtml
    /\ bodyHtml = Handled[TRUE, FullResponse].bodyHtml

\* C18: a click while either file input holds no file leaves the button's
\* disabled flag, the status class and text, the summary, the header, the
\* body and the visibility of the result section as they were.
ClickWithoutFilesChangesNothing ==
    [][\A value \in SheetInputs :
          Click(value) /\ (esgInput = 0 \/ taxInput = 0)
              => UNCHANGED <<btnDisabled, statusClass, statusText, summaryHtml,
                             theadHtml, bodyHtml, resultHidden>>]_vars

\* the button can be clicked while the TAX input holds no file
ClickableWithoutTaxFile ==
    /\ ENABLED Click(<<>>)
    /\ esgInput # 0
    /\ taxInput = 0
    /\ ~resultHidden

=============================================================================
